---- MODULE Spec2Model ----
(***************************************************************************)
(* Model of covid_tweets.py: the command line collector                    *)
(*   main: parse_args -> create_api -> scrape_tweets -> save_to_csv -> print*)
(* together with the pure functions tweet_to_row and save_to_csv, and the  *)
(* reader load_tweets of transformer_sentiment.py.                         *)
(*                                                                         *)
(* The Twitter service, the process environment and the file system are    *)
(* the environment of the program: the records the service holds, the      *)
(* rate-limit and failure signals it sends, the environment variables and  *)
(* the files present before the run are inputs drawn from bounded sets.    *)
(* The cursor is tweepy 3.x's ItemIterator over the pages of API.search    *)
(* (the release that has API.search): Cursor(...).items(limit).            *)
(***************************************************************************)
EXTENDS Integers, Sequences, FiniteSets, TLC

(* ------------------------------ bounds -------------------------------- *)

\* most records the service holds for the query
MaxRecords == 3
\* records per page of search results
PageSize == 2
\* largest explicit --limit tried; the arguments range over -1..MaxLimit
MaxLimit == 3
\* most rate-limit signals the service sends during one run
MaxRateLimits == 2
\* most hashtag annotations on one record
MaxTags == 3
\* most save_to_csv calls in a row, and most rows of a frame they write
MaxWrites == 2
MaxRows == 2

(* ------------------------- program constants -------------------------- *)

\* default of --limit
DefaultLimit == 100
\* default of --output; the second name stands for an explicit --output
DefaultOutput == "scraped_tweets.csv"
Files == {DefaultOutput, "out.csv"}

\* the names read by create_api, in the order of the reads
CredNames ==
    << "TWITTER_CONSUMER_KEY", "TWITTER_CONSUMER_SECRET",
       "TWITTER_ACCESS_TOKEN", "TWITTER_ACCESS_TOKEN_SECRET" >>

\* the header of the result table
columns ==
    << "username", "description", "location", "following", "followers",
       "totaltweets", "retweetcount", "text", "hashtags" >>

CompletionMessage == "Scraping has completed!"

Min(a, b) == IF a <= b THEN a ELSE b

Take(s, k) == SubSeq(s, 1, Min(k, Len(s)))

(* --------------------------- the environment -------------------------- *)

\* a secret of its own for each variable, so that a mix-up of two shows
Secret(name) ==
    CASE name = CredNames[1] -> "ck"
      [] name = CredNames[2] -> "cs"
      [] name = CredNames[3] -> "at"
      [] OTHER -> "ats"

CredSet == {CredNames[i] : i \in 1..4}

\* a process environment: each variable unset, set to "", or set to its secret
Envs ==
    UNION { { e \in [S -> {"", "ck", "cs", "at", "ats"}] :
                \A n \in S : e[n] \in {"", Secret(n)} } : S \in SUBSET CredSet }

\* os.getenv(name): None is <<>>, a value v is <<v>>
getenv(e, name) == IF name \in DOMAIN e THEN << e[name] >> ELSE <<>>

\* Python truth of an Optional[str]: None and "" are false
Truthy(v) == v # <<>> /\ v[1] # ""

(* ------------------------------ records ------------------------------- *)

Tags == {"covid", "vaccine", "news"}

Users ==
    { [screen_name |-> "alice", description |-> "nurse", location |-> "",
       friends_count |-> 10, followers_count |-> 20, statuses_count |-> 30],
      [screen_name |-> "bob", description |-> "", location |-> "Pune",
       friends_count |-> 0, followers_count |-> 7, statuses_count |-> 1] }

Alice == CHOOSE u \in Users : u.screen_name = "alice"

\* the text of an original post, and the truncated text of its reshare
FullBody == "A"
TruncatedBody == "RT A..."

RECURSIVE SeqsUpTo(_, _)
SeqsUpTo(S, k) ==
    IF k = 0 THEN { <<>> }
    ELSE LET shorter == SeqsUpTo(S, k - 1)
         IN  shorter \cup { Append(s, x) : s \in shorter, x \in S }

\* tweet.entities: a dict that holds the hashtag annotations under "hashtags",
\* each a dict with the tag under "text", or that has no "hashtags" key
EntitiesOf(tags) ==
    [hashtags |-> [i \in 1..Len(tags) |-> [text |-> tags[i], indices |-> i]],
     urls |-> <<>>]

NoHashtagEntities == [urls |-> <<>>]

AllEntities ==
    { EntitiesOf(t) : t \in SeqsUpTo(Tags, MaxTags) } \cup { NoHashtagEntities }

\* The shapes of a Status.  An attribute a Status lacks is a field the record
\* lacks.  The referenced original of a reshare is itself a Status returned in
\* extended mode and carries full_text.
Shapes == {"original", "retweet", "retweet_no_own_text", "malformed"}

Status(i, u, ents, shape) ==
    LET base == [id |-> i, user |-> u, retweet_count |-> i, entities |-> ents]
        orig == [id |-> 0, full_text |-> FullBody]
    IN  CASE shape = "original" ->
               base @@ [full_text |-> FullBody]
          [] shape = "retweet" ->
               base @@ [full_text |-> TruncatedBody, retweeted_status |-> orig]
          [] shape = "retweet_no_own_text" ->
               base @@ [retweeted_status |-> orig]
          [] OTHER -> base

\* every record tweet_to_row is tried on
Statuses ==
    { Status(1, u, e, s) : u \in Users, e \in AllEntities, s \in Shapes }

\* the result lists a service can hold for a query, in ranking order; the
\* i-th record has id i
Sources ==
    { [i \in 1..Len(sh) |-> Status(i, Alice, EntitiesOf(<< "covid" >>), sh[i])] :
        sh \in SeqsUpTo({"original", "retweet", "malformed"}, MaxRecords) }

HasAttr(obj, name) == name \in DOMAIN obj

(* ---------------------------- tweet_to_row ---------------------------- *)

hashtags_reversed(tweet) ==
    LET hs == IF "hashtags" \in DOMAIN tweet.entities
              THEN tweet.entities.hashtags ELSE <<>>
    IN  [i \in 1..Len(hs) |-> hs[Len(hs) + 1 - i].text]

\* hashtags = [h["text"] for h in tweet.entities.get("hashtags", [])]
hashtags(tweet) ==
    LET hs == IF "hashtags" \in DOMAIN tweet.entities
              THEN tweet.entities.hashtags ELSE <<>>
    IN  [i \in 1..Len(hs) |-> hs[i].text]

\* the try block succeeds: tweet.retweeted_status.full_text exists
HasRetweetText(tweet) ==
    /\ HasAttr(tweet, "retweeted_status")
    /\ HasAttr(tweet.retweeted_status, "full_text")

\* the except block raises AttributeError in its turn
text_raises_never(tweet) == FALSE

text_raises(tweet) == ~HasRetweetText(tweet) /\ ~HasAttr(tweet, "full_text")

text_own_first(tweet) ==
    IF HasAttr(tweet, "full_text") THEN tweet.full_text
    ELSE IF HasRetweetText(tweet) THEN tweet.retweeted_status.full_text
    ELSE ""

\* try: text = tweet.retweeted_status.full_text
\* except AttributeError: text = tweet.full_text
text(tweet) ==
    IF HasRetweetText(tweet) THEN tweet.retweeted_status.full_text
    ELSE IF HasAttr(tweet, "full_text") THEN tweet.full_text
    ELSE ""

\* tweet_to_row(tweet): the row, or the AttributeError it raises
tweet_to_row(tweet) ==
    IF text_raises(tweet)
    THEN [ok |-> FALSE, row |-> <<>>]
    ELSE [ok |-> TRUE,
          row |-> << tweet.user.screen_name, tweet.user.description,
                     tweet.user.location, tweet.user.friends_count,
                     tweet.user.followers_count, tweet.user.statuses_count,
                     tweet.retweet_count, text(tweet), hashtags(tweet) >>]

(* ------------------------ DataFrame, to_csv --------------------------- *)

\* pd.DataFrame(rows, columns=columns)
DataFrame(rs, cols) == [columns |-> cols, data |-> rs]

RECURSIVE JoinRepr(_)
JoinRepr(l) ==
    IF l = <<>> THEN ""
    ELSE IF Len(l) = 1 THEN "'" \o l[1] \o "'"
    ELSE "'" \o l[1] \o "', " \o JoinRepr(Tail(l))

\* str() of a list of str, as to_csv writes an object cell holding a list
list_repr(l) == "[" \o JoinRepr(l) \o "]"

\* the fields of one data line: str cells as they are, int cells in decimal,
\* the list cell as its repr
FormatRow(row) ==
    << row[1], row[2], row[3], ToString(row[4]), ToString(row[5]),
       ToString(row[6]), ToString(row[7]), row[8], list_repr(row[9]) >>

\* DataFrame.to_csv: the lines of the file, each a list of fields
to_csv(frame, index) ==
    LET n == Len(frame.data)
    IN  IF index
        THEN << << "" >> \o frame.columns >> \o
             [i \in 1..n |-> << ToString(i - 1) >> \o FormatRow(frame.data[i])]
        ELSE << frame.columns >> \o [i \in 1..n |-> FormatRow(frame.data[i])]

\* a file: absent, or its lines
Absent == [exists |-> FALSE, lines |-> <<>>]
StaleFile == [exists |-> TRUE,
              lines |-> << << "id", "note" >>, << "1", "stale" >> >>]

save_to_csv_appends(files, frame, filename) ==
    [files EXCEPT ![filename] =
        [exists |-> TRUE, lines |-> @.lines \o to_csv(frame, FALSE)]]

\* save_to_csv(df, filename): df.to_csv(filename, index=False), mode "w"
save_to_csv(files, frame, filename) ==
    [files EXCEPT ![filename] = [exists |-> TRUE, lines |-> to_csv(frame, FALSE)]]

\* pd.read_csv(filename): the header line names the columns, the other lines
\* are the data
read_csv(file) == [columns |-> Head(file.lines), data |-> Tail(file.lines)]

ColumnIndex(cols, name) == CHOOSE i \in 1..Len(cols) : cols[i] = name

\* load_tweets(filename): df["text"].tolist(); ok is FALSE for its RuntimeError
load_tweets(files, filename) ==
    LET frame == read_csv(files[filename])
    IN  IF \E i \in 1..Len(frame.columns) : frame.columns[i] = "text"
        THEN [ok |-> TRUE,
              texts |-> [i \in 1..Len(frame.data) |->
                           frame.data[i][ColumnIndex(frame.columns, "text")]]]
        ELSE [ok |-> FALSE, texts |-> <<>>]

(* ------------------------------- state -------------------------------- *)

VARIABLES
    pc,            \* the statement of main the process is at
    env,           \* os.environ
    fs0,           \* the files as they were when the process started
    fs,            \* the files
    limit,         \* args.limit
    output,        \* args.output
    api,           \* <<>> before create_api returns, then << the tweepy.API >>
    source,        \* the records the service holds for the query, best first
    cursor,        \* the ItemIterator of scrape_tweets
    requests,      \* search requests sent to the service
    rateLimitHits, \* rate-limit signals received
    yielded,       \* the records the cursor has yielded, in order
    normalized,    \* the ids tweet_to_row has been called on, in order
    rows,          \* the list the comprehension of scrape_tweets builds
    df,            \* the DataFrame scrape_tweets returns
    lastWritten,   \* per file: <<>>, or << the frame save_to_csv wrote last >>
    writes,        \* save_to_csv calls made
    stdout,        \* lines printed
    error,         \* "" or the exception that ended the process
    tweet,         \* the argument of a lone tweet_to_row call
    result         \* what that call returned

vars ==
    << pc, env, fs0, fs, limit, output, api, source, cursor, requests,
       rateLimitHits, yielded, normalized, rows, df, lastWritten, writes,
       stdout, error, tweet, result >>

NoCursor ==
    [limit |-> 0, num_tweets |-> 0, current_page |-> <<>>, page_index |-> -1,
     max_pos |-> 0]

NoResult == [ok |-> FALSE, row |-> <<>>]

\* what every specification starts from, the process environment and the
\* files aside
Blank ==
    /\ limit = DefaultLimit
    /\ output = DefaultOutput
    /\ api = <<>>
    /\ source = <<>>
    /\ cursor = NoCursor
    /\ requests = 0
    /\ rateLimitHits = 0
    /\ yielded = <<>>
    /\ normalized = <<>>
    /\ rows = <<>>
    /\ df = DataFrame(<<>>, columns)
    /\ lastWritten = [f \in Files |-> <<>>]
    /\ writes = 0
    /\ stdout = <<>>
    /\ error = ""

\* the process starts: any environment, each file absent or left by someone
Init ==
    /\ pc = "parse_args"
    /\ env \in Envs
    /\ fs0 \in [Files -> {Absent, StaleFile}]
    /\ fs = fs0
    /\ Blank
    /\ tweet = Status(1, Alice, NoHashtagEntities, "original")
    /\ result = NoResult

(* -------------------------------- main -------------------------------- *)

\* what --limit may be given as: type=int takes any integer
LimitArgs == (-1..MaxLimit) \cup {DefaultLimit}

\* args = parser.parse_args()
ParseArgs ==
    /\ pc = "parse_args"
    /\ \E l \in LimitArgs, o \in Files : limit' = l /\ output' = o
    /\ pc' = "create_api"
    /\ UNCHANGED << env, fs0, fs, api, source, cursor, requests, rateLimitHits,
                    yielded, normalized, rows, df, lastWritten, writes, stdout,
                    error, tweet, result >>

credentials_any(e) == \E i \in 1..4 : Truthy(getenv(e, CredNames[i]))

\* all([consumer_key, consumer_secret, access_token, access_secret])
credentials_all(e) == \A i \in 1..4 : Truthy(getenv(e, CredNames[i]))

wait_on_rate_limit_off == FALSE

\* tweepy.API(auth, wait_on_rate_limit=True)
wait_on_rate_limit == TRUE

\* The session holds the values as os.getenv returned them.
\* auth = OAuthHandler(consumer_key, consumer_secret);
\* auth.set_access_token(access_token, access_secret); API(auth, ...)
session(e) ==
    [consumer_key |-> getenv(e, CredNames[1]),
     consumer_secret |-> getenv(e, CredNames[2]),
     access_token |-> getenv(e, CredNames[3]),
     access_token_secret |-> getenv(e, CredNames[4]),
     wait_on_rate_limit |-> wait_on_rate_limit]

\* api = create_api()
CreateApi ==
    /\ pc = "create_api"
    /\ IF ~credentials_all(env)
       THEN /\ error' = "RuntimeError"
            /\ pc' = "failed"
            /\ api' = api
       ELSE /\ api' = << session(env) >>
            /\ pc' = "scrape_tweets"
            /\ error' = error
    /\ UNCHANGED << env, fs0, fs, limit, output, source, cursor, requests,
                    rateLimitHits, yielded, normalized, rows, df, lastWritten,
                    writes, stdout, tweet, result >>

(* ---------------------------- scrape_tweets --------------------------- *)

items_limit_plus_one == limit + 1

\* the argument of .items(limit)
items_limit == limit

\* cursor = tweepy.Cursor(api.search, q=query, lang="en",
\*                        tweet_mode="extended").items(limit)
\* No request is sent yet.  What the service holds for the query is fixed here.
StartCursor ==
    /\ pc = "scrape_tweets"
    /\ source' \in Sources
    /\ cursor' = [NoCursor EXCEPT !.limit = items_limit]
    /\ rows' = <<>>
    /\ pc' = "cursor"
    /\ UNCHANGED << env, fs0, fs, limit, output, api, requests, rateLimitHits,
                    yielded, normalized, df, lastWritten, writes, stdout, error,
                    tweet, result >>

\* ItemIterator.next: if self.limit > 0: if self.num_tweets == self.limit: stop
LimitReached(c) == c.limit > 0 /\ c.num_tweets = c.limit

\* ItemIterator.next: the current page is used up (or there is none yet)
PageExhausted(c) ==
    c.current_page = <<>> \/ c.page_index = Len(c.current_page) - 1

collect_front(rs, r) == << r >> \o rs

\* the comprehension collects the rows in the order of the iteration
collect(rs, r) == Append(rs, r)

\* one round of [tweet_to_row(tweet) for tweet in cursor] once the cursor has
\* yielded t and is left as c: an AttributeError of tweet_to_row leaves the
\* comprehension, scrape_tweets and main
Deliver(t, c) ==
    /\ cursor' = c
    /\ yielded' = Append(yielded, t)
    /\ normalized' = Append(normalized, t.id)
    /\ IF tweet_to_row(t).ok
       THEN /\ rows' = collect(rows, tweet_to_row(t).row)
            /\ pc' = "cursor"
            /\ error' = error
       ELSE /\ rows' = rows
            /\ pc' = "failed"
            /\ error' = "AttributeError"

\* StopIteration ends the comprehension:
\* return pd.DataFrame(rows, columns=columns)
Return ==
    /\ df' = DataFrame(rows, columns)
    /\ pc' = "save_to_csv"

\* next(cursor): the limit is reached
CursorStop ==
    /\ pc = "cursor"
    /\ LimitReached(cursor)
    /\ Return
    /\ UNCHANGED << env, fs0, fs, limit, output, api, source, cursor, requests,
                    rateLimitHits, yielded, normalized, rows, lastWritten,
                    writes, stdout, error, tweet, result >>

\* next(cursor): the next record of the current page
CursorYield ==
    /\ pc = "cursor"
    /\ ~LimitReached(cursor)
    /\ ~PageExhausted(cursor)
    /\ Deliver(cursor.current_page[cursor.page_index + 2],
               [cursor EXCEPT !.page_index = @ + 1, !.num_tweets = @ + 1])
    /\ UNCHANGED << env, fs0, fs, limit, output, api, source, requests,
                    rateLimitHits, df, lastWritten, writes, stdout, tweet,
                    result >>

\* next(cursor): a page is needed, the search request goes out
CursorFetch ==
    /\ pc = "cursor"
    /\ ~LimitReached(cursor)
    /\ PageExhausted(cursor)
    /\ requests' = requests + 1
    /\ pc' = "search"
    /\ UNCHANGED << env, fs0, fs, limit, output, api, source, cursor,
                    rateLimitHits, yielded, normalized, rows, df, lastWritten,
                    writes, stdout, error, tweet, result >>

\* the page of results that follows the first pos records
Page(src, pos) == SubSeq(src, pos + 1, Min(pos + PageSize, Len(src)))

\* the service answers with the next page: an empty page ends the iteration,
\* any other becomes the current page and its first record is yielded
SearchReturns ==
    /\ pc = "search"
    /\ LET page == Page(source, cursor.max_pos)
       IN  IF page = <<>>
           THEN /\ Return
                /\ UNCHANGED << cursor, yielded, normalized, rows, error >>
           ELSE /\ Deliver(page[1],
                           [cursor EXCEPT !.current_page = page,
                                          !.page_index = 0,
                                          !.num_tweets = @ + 1,
                                          !.max_pos = @ + Len(page)])
                /\ df' = df
    /\ UNCHANGED << env, fs0, fs, limit, output, api, source, requests,
                    rateLimitHits, lastWritten, writes, stdout, tweet, result >>

\* the service answers that the rate limit is reached: with
\* wait_on_rate_limit the request sleeps until the window resets, without it
\* the error is raised
SearchRateLimited ==
    /\ pc = "search"
    /\ rateLimitHits < MaxRateLimits
    /\ rateLimitHits' = rateLimitHits + 1
    /\ IF api[1].wait_on_rate_limit
       THEN pc' = "rate_limit_sleep" /\ error' = error
       ELSE pc' = "failed" /\ error' = "RateLimitError"
    /\ UNCHANGED << env, fs0, fs, limit, output, api, source, cursor, requests,
                    yielded, normalized, rows, df, lastWritten, writes, stdout,
                    tweet, result >>

\* the window resets: the same request is sent again
RateLimitReset ==
    /\ pc = "rate_limit_sleep"
    /\ requests' = requests + 1
    /\ pc' = "search"
    /\ UNCHANGED << env, fs0, fs, limit, output, api, source, cursor,
                    rateLimitHits, yielded, normalized, rows, df, lastWritten,
                    writes, stdout, error, tweet, result >>

SearchUnavailable_sinks ==
    /\ pc = "search"
    /\ error' = "TweepError"
    /\ pc' = "failed"
    /\ fs' = save_to_csv(fs, DataFrame(rows, columns), output)
    /\ UNCHANGED << env, fs0, limit, output, api, source, cursor, requests,
                    rateLimitHits, yielded, normalized, rows, df, lastWritten,
                    writes, stdout, tweet, result >>

\* the service cannot be reached or refuses the credentials: the TweepError
\* leaves the comprehension, scrape_tweets and main; nothing catches it
SearchUnavailable ==
    /\ pc = "search"
    /\ error' = "TweepError"
    /\ pc' = "failed"
    /\ UNCHANGED << env, fs0, fs, limit, output, api, source, cursor, requests,
                    rateLimitHits, yielded, normalized, rows, df, lastWritten,
                    writes, stdout, tweet, result >>

(* ------------------------- save_to_csv, print ------------------------- *)

\* save_to_csv(df, args.output)
SaveToCsv ==
    /\ pc = "save_to_csv"
    /\ fs' = save_to_csv(fs, df, output)
    /\ lastWritten' = [lastWritten EXCEPT ![output] = << df >>]
    /\ writes' = writes + 1
    /\ pc' = "print"
    /\ UNCHANGED << env, fs0, limit, output, api, source, cursor, requests,
                    rateLimitHits, yielded, normalized, rows, df, stdout, error,
                    tweet, result >>

\* print("Scraping has completed!")
PrintCompleted ==
    /\ pc = "print"
    /\ stdout' = Append(stdout, CompletionMessage)
    /\ pc' = "done"
    /\ UNCHANGED << env, fs0, fs, limit, output, api, source, cursor, requests,
                    rateLimitHits, yielded, normalized, rows, df, lastWritten,
                    writes, error, tweet, result >>

Next ==
    \/ ParseArgs
    \/ CreateApi
    \/ StartCursor
    \/ CursorStop
    \/ CursorYield
    \/ CursorFetch
    \/ SearchReturns
    \/ SearchRateLimited
    \/ RateLimitReset
    \/ SearchUnavailable
    \/ SaveToCsv
    \/ PrintCompleted

\* one run of the command
Spec == Init /\ [][Next]_vars

(* ----------------------- tweet_to_row on its own ---------------------- *)

NoEnv == CHOOSE e \in Envs : DOMAIN e = {}

\* a call of tweet_to_row on any record
InitRow ==
    /\ pc = "tweet_to_row"
    /\ tweet \in Statuses
    /\ result = NoResult
    /\ env = NoEnv
    /\ fs0 = [f \in Files |-> Absent]
    /\ fs = fs0
    /\ Blank

NormalizeRow ==
    /\ pc = "tweet_to_row"
    /\ result' = tweet_to_row(tweet)
    /\ pc' = "row_returned"
    /\ UNCHANGED << env, fs0, fs, limit, output, api, source, cursor, requests,
                    rateLimitHits, yielded, normalized, rows, df, lastWritten,
                    writes, stdout, error, tweet >>

SpecRow == InitRow /\ [][NormalizeRow]_vars

(* ----------------------- save_to_csv on its own ----------------------- *)

\* rows tweet_to_row returns, with no tag, one tag and two tags
SomeRows ==
    { tweet_to_row(Status(1, Alice, EntitiesOf(<< "covid", "vaccine" >>),
                          "original")).row,
      tweet_to_row(Status(2, Alice, EntitiesOf(<< "news" >>), "retweet")).row,
      tweet_to_row(Status(3, Alice, NoHashtagEntities, "original")).row }

Frames == { DataFrame(rs, columns) : rs \in SeqsUpTo(SomeRows, MaxRows) }

\* calls of save_to_csv, one after the other, on files of any past
InitCsv ==
    /\ pc = "save_to_csv_calls"
    /\ fs0 \in [Files -> {Absent, StaleFile}]
    /\ fs = fs0
    /\ env = NoEnv
    /\ Blank
    /\ tweet = Status(1, Alice, NoHashtagEntities, "original")
    /\ result = NoResult

WriteCsv ==
    /\ pc = "save_to_csv_calls"
    /\ writes < MaxWrites
    /\ \E frame \in Frames, filename \in Files :
          /\ fs' = save_to_csv(fs, frame, filename)
          /\ lastWritten' = [lastWritten EXCEPT ![filename] = << frame >>]
    /\ writes' = writes + 1
    /\ UNCHANGED << pc, env, fs0, limit, output, api, source, cursor, requests,
                    rateLimitHits, yielded, normalized, rows, df, stdout, error,
                    tweet, result >>

SpecCsv == InitCsv /\ [][WriteCsv]_vars

(* ------------------------------- claims ------------------------------- *)

\* the cursor of scrape_tweets exists
Started ==
    /\ pc \notin {"parse_args", "create_api", "scrape_tweets"}
    /\ error # "RuntimeError"

Returned == pc \in {"save_to_csv", "print", "done"}

\* C1: with limit > 0 and a service holding n records, the cursor yields at
\* most limit records; a collection that ends has yielded exactly
\* min(n, limit) of them and the table has that many rows; running out of
\* records is the end of the iteration, not an error.
C1_AtMostLimit ==
    (Started /\ limit > 0) =>
        /\ Len(yielded) <= limit
        /\ Len(rows) <= limit
        /\ Returned =>
              /\ Len(yielded) = Min(Len(source), limit)
              /\ Len(df.data) = Min(Len(source), limit)
              /\ error = ""
        /\ error \in {"", "TweepError", "AttributeError"}

\* C1 witness: the service held fewer records than the limit and the run
\* completed with exactly those.
C1_Witness ==
    /\ pc = "done"
    /\ limit > 0
    /\ Len(source) >= 1
    /\ Len(source) < limit
    /\ Len(df.data) = Len(source)
    /\ error = ""

\* what a run that meets no rate-limit signal delivers
Undisturbed == IF cursor.limit > 0 THEN Take(source, cursor.limit) ELSE source

\* C2: rate-limit signals, wherever they fall and however many, lose and
\* repeat nothing: the records delivered are a prefix of the service's
\* result list, the request sent again after the wait asks for the page that
\* follows the records delivered so far, the signal never ends the run, and a
\* completed collection delivered what an undisturbed run delivers.
C2_RateLimitTransparent ==
    /\ error # "RateLimitError"
    /\ yielded = Take(source, Len(yielded))
    /\ pc \in {"search", "rate_limit_sleep"} => cursor.max_pos = Len(yielded)
    /\ pc = "rate_limit_sleep" => rateLimitHits > 0
    /\ Returned => yielded = Undisturbed

\* C2 witness: a run suspended twice completed with records of two pages.
C2_Witness ==
    /\ pc = "done"
    /\ rateLimitHits = 2
    /\ Len(yielded) > PageSize
    /\ yielded = Undisturbed

IsRepost(t) == HasAttr(t, "retweeted_status")

\* C3: the row of a record with a repost reference carries the referenced
\* original's full text, not the record's own; the row of a record without
\* one carries the record's own full_text.
C3_RepostText ==
    (pc = "row_returned") =>
        /\ IsRepost(tweet) =>
              /\ result.ok
              /\ result.row[8] = tweet.retweeted_status.full_text
              /\ result.row[8] = FullBody
              /\ HasAttr(tweet, "full_text") => result.row[8] # TruncatedBody
        /\ (~IsRepost(tweet) /\ HasAttr(tweet, "full_text")) =>
              /\ result.ok
              /\ result.row[8] = tweet.full_text

\* C3 witness: a reshare with its own truncated text was given the
\* original's text.
C3_Witness ==
    /\ pc = "row_returned"
    /\ IsRepost(tweet)
    /\ HasAttr(tweet, "full_text")
    /\ tweet.full_text = TruncatedBody
    /\ result.row[8] = FullBody

Missing(e) == \E n \in CredSet : n \notin DOMAIN e \/ e[n] = ""

\* C4: once create_api has run, an environment that lacks a credential, or
\* holds an empty one, has ended the process with the RuntimeError, no
\* session built and no request sent; a complete environment has given a
\* session built from exactly its four values.
C4_Credentials ==
    /\ pc \in {"parse_args", "create_api"} => api = <<>>
    /\ pc \notin {"parse_args", "create_api"} =>
          IF Missing(env)
          THEN /\ pc = "failed"
               /\ error = "RuntimeError"
               /\ api = <<>>
               /\ requests = 0
               /\ yielded = <<>>
          ELSE /\ error # "RuntimeError"
               /\ Len(api) = 1
               /\ api[1].consumer_key = << env["TWITTER_CONSUMER_KEY"] >>
               /\ api[1].consumer_secret = << env["TWITTER_CONSUMER_SECRET"] >>
               /\ api[1].access_token = << env["TWITTER_ACCESS_TOKEN"] >>
               /\ api[1].access_token_secret = << env["TWITTER_ACCESS_TOKEN_SECRET"] >>

\* C4 witness: three credentials set and the fourth empty ended the process.
C4_Witness ==
    /\ pc = "failed"
    /\ error = "RuntimeError"
    /\ DOMAIN env = CredSet
    /\ env["TWITTER_CONSUMER_KEY"] = "ck"
    /\ env["TWITTER_CONSUMER_SECRET"] = "cs"
    /\ env["TWITTER_ACCESS_TOKEN"] = "at"
    /\ env["TWITTER_ACCESS_TOKEN_SECRET"] = ""

\* C5 as claimed: when the service becomes unavailable after k >= 1 records,
\* the k rows normalized so far are left in the output destination.
C5_PartialOutputLeft ==
    (error = "TweepError" /\ Len(rows) >= 1) =>
        /\ fs[output].exists
        /\ Tail(fs[output].lines) = [i \in 1..Len(rows) |-> FormatRow(rows[i])]

\* C5 as amended: when the service becomes unavailable after k records, the
\* error ends the process at once, no further request is sent, and nothing is
\* written: every file is as it was before the run, the k rows are dropped
\* and the completion message is not printed.
C5_NoOutputOnInterruption ==
    (error = "TweepError") =>
        /\ pc = "failed"
        /\ ~ENABLED Next
        /\ fs = fs0
        /\ writes = 0
        /\ \A f \in Files : lastWritten[f] = <<>>
        /\ stdout = <<>>

\* C5 witness: the service failed after two rows and there is no output file.
C5_Witness ==
    /\ error = "TweepError"
    /\ pc = "failed"
    /\ Len(rows) = 2
    /\ ~fs[output].exists

\* C6: the records are yielded in the service's order; tweet_to_row is called
\* once on each, in that order; row i of the list, and of the table, is the
\* row of the i-th record yielded, and the table has one row per record.
C6_OrderedExactlyOnce ==
    LET k == IF error = "AttributeError" THEN Len(yielded) - 1 ELSE Len(yielded)
    IN  /\ yielded = Take(source, Len(yielded))
        /\ normalized = [i \in 1..Len(yielded) |-> yielded[i].id]
        /\ Len(rows) = k
        /\ \A i \in 1..k : rows[i] = tweet_to_row(yielded[i]).row
        /\ Returned =>
              /\ df.columns = columns
              /\ df.data = rows
              /\ Len(df.data) = Len(yielded)

\* C6 witness: a table of three different rows, from two pages.
C6_Witness ==
    /\ pc = "done"
    /\ Len(df.data) = 3
    /\ Len(df.data) > PageSize
    /\ df.data[1] # df.data[2]
    /\ df.data[2] # df.data[3]

C8_PositiveLimitOnly == (limit <= 0) => yielded = <<>>

\* C9: the row's tag list is the record's hashtag annotations, as many and in
\* the order they are attached; a record with no annotation, or with no
\* hashtag collection, gets the empty list; the tags never make the call
\* fail.
C9_TagsInOrder ==
    (pc = "row_returned") =>
        /\ result.ok <=> (IsRepost(tweet) \/ HasAttr(tweet, "full_text"))
        /\ result.ok =>
              /\ \A tags \in SeqsUpTo(Tags, MaxTags) :
                    tweet.entities = EntitiesOf(tags) => result.row[9] = tags
              /\ tweet.entities = NoHashtagEntities => result.row[9] = <<>>
              /\ tweet.entities = EntitiesOf(<< "covid", "vaccine", "news" >>)
                    => result.row[9] = << "covid", "vaccine", "news" >>

\* C9 witness: the three tags of the example came out in their order.
C9_Witness ==
    /\ pc = "row_returned"
    /\ result.ok
    /\ tweet.entities = EntitiesOf(<< "covid", "vaccine", "news" >>)
    /\ result.row[9] = << "covid", "vaccine", "news" >>

IsMalformed(t) == ~IsRepost(t) /\ ~HasAttr(t, "full_text")

\* C10: once a record with neither a repost reference nor a full text has
\* been yielded, the process has ended with the AttributeError: that record
\* is the last one yielded, it has no row, no file has been written and the
\* completion message has not been printed.
C10_MalformedAborts ==
    \A i \in 1..Len(yielded) :
        IsMalformed(yielded[i]) =>
            /\ pc = "failed"
            /\ error = "AttributeError"
            /\ i = Len(yielded)
            /\ Len(rows) = i - 1
            /\ fs = fs0
            /\ writes = 0
            /\ stdout = <<>>

\* C10 witness: the third record was malformed, after two good ones.
C10_Witness ==
    /\ Len(yielded) = 3
    /\ IsMalformed(yielded[3])
    /\ Len(rows) = 2
    /\ pc = "failed"

====
